---------------------------- MODULE Spec2Model ----------------------------
(***************************************************************************)
(* Model of the memory-dump job scheduler of memdump_service.py: the       *)
(* status store _active_dumps, the semaphore _concurrency_sem, the request *)
(* handler trigger_dumps, the worker thread _dump_worker and the progress  *)
(* monitor thread of start_progress_monitor.                               *)
(*                                                                         *)
(* Every statement that reads or writes shared state (the status store     *)
(* under _active_lock, the semaphore, a stop event, the size of an output  *)
(* file) is a step of its own; statements that touch only locals of the    *)
(* thread are merged into the step that follows them.                      *)
(*                                                                         *)
(* The batching writer thread (InfluxConnector of influx_connector.py and  *)
(* InfluxWriter of getStats8remoteWithInfluxVerboseNovel.py) with the      *)
(* callers of its enqueue is a second system, WriterSpec; the delivery of  *)
(* summary points by write_influx_point of memdump_service.py, with the    *)
(* part of the worker around the call, is a third, SinkSpec.               *)
(***************************************************************************)
EXTENDS Integers, Sequences, FiniteSets, TLC

\* ------------------------------------------------------------ bounds

\* The cap on concurrent dumps, read from the environment variable
\* MAX_PARALLEL_DUMPS when the service starts (any positive integer; 2 when
\* the variable is not set).
MAX_PARALLEL_DUMPS == 1
\* Number of dump ids uuid.uuid4() hands out before submissions stop.
MaxJobs == 2
\* Largest size, in units, an output file grows to.
MaxSize == 2

\* The VM identifiers requests name; more keys than slots.
Keys == {"vm1", "vm2", "vm0"}
\* lookup_domain(vm) returns a domain for vm1 and vm2 and raises for vm0,
\* which names no domain of the host.
DomainExists == [k \in Keys |-> k # "vm0"]

\* MAX_VMID of memdump.py.
MAX_VMID == 99999

\* int(re.findall(r"\d+", any_key)[-1]): the number a key ends with.
NumericPortion == [k \in Keys |-> IF k = "vm1" THEN 1 ELSE IF k = "vm2" THEN 2 ELSE 0]

\* _extract_vmid(any_key) of memdump.py, the validation of VM identifiers
\* in the code: it raises ValueError for a number that is not in
\* 1..MAX_VMID and returns the number otherwise. trigger_dumps does not
\* call it.
ExtractVmid(k) ==
    LET vmid == NumericPortion[k]
    IN  IF vmid <= 0 \/ vmid > MAX_VMID
        THEN [raises |-> TRUE, vmid |-> 0]
        ELSE [raises |-> FALSE, vmid |-> vmid]

\* dom.maxMemory() * 1024 of each VM, in units of file size: vm1 reports 1
\* unit; for the others the call raises or returns 0.
MaxMemory == [k \in Keys |-> IF k = "vm1" THEN 1 ELSE 0]

Jobs == 1..MaxJobs

\* max_queue of InfluxConnector.__init__ (20000 by default, and the fixed
\* maxsize of InfluxWriter's queue): the capacity of the queue.
max_queue == 2
\* self.batch_lines = max(1, batch_lines).
batch_lines == 2
\* self.batch_sec = max(0.05, batch_sec), in ticks of the clock.
batch_sec == 2
\* Number of records the producers call enqueue with.
MaxRecords == 3

Records == 1..MaxRecords
\* The threads that call enqueue.
Producers == {"p1", "p2"}
\* The two classes with this run loop and this enqueue.
Variants == {"InfluxConnector", "InfluxWriter"}

\* Number of summary points handed to write_influx_point.
MaxPoints == 2

SummaryPoints == 1..MaxPoints

VARIABLES
    active,      \* _active_dumps: key -> DumpStatus (NoRecord: key absent)
    sem,         \* _concurrency_sem: free slots
    nextId,      \* the next dump id uuid.uuid4() returns
    w,           \* job id -> the _dump_worker thread started with that dump_id
    mon,         \* job id -> the _monitor thread of the job
    points,      \* job id -> summary points handed to write_influx_point
    returned     \* the entry trigger_dumps last put into a result: the key
                 \* and the dump id of the record (0: none yet)

VARIABLES
    variant,     \* the class of the writer: one of Variants
    queue,       \* self.queue / self.q: the records queued, oldest first
    running,     \* self._running
    stopped,     \* stop_writing() / stop() has been called
    wt,          \* the writer thread: its place in run(), buf, and the
                 \* ticks since last_flush (counted up to batch_sec)
    enq,         \* producer -> its place in enqueue and the record it holds
    nextRec,     \* the next record a producer calls enqueue with
    result,      \* record -> how its enqueue call ended
    fate,        \* record -> how it left the queue or the buffer
    overlapped,  \* two enqueue calls have been in progress at once
    dequeued,    \* the writer thread has taken a record from the queue
    enqueued,    \* the records put into the queue, in the order of the puts
    flushed      \* the records of the batches handed to _flush_batch, in
                 \* the order of the calls and, in a batch, of buf

VARIABLES
    dl,          \* summary point -> the call of write_influx_point for it:
                 \* its place, the attempts made so far with their outcomes,
                 \* and the state its worker has stored
    backlog      \* the points appended to the file INFLUX_BACKLOG_PATH

VARIABLES
    prev_by_dom, \* _prev_by_dom: Dom -> the snapshot of its previous update
    emitted,     \* the lines the last call of _compute_features_and_enqueue
                 \* handed to writer.enqueue, in order
    update       \* that call: its Dom, the snapshot it found in
                 \* _prev_by_dom and the snapshot it built

VARIABLES
    tagIn,       \* the tag value handed to the encoders
    fieldIn,     \* the field value handed to the encoders
    encoded      \* the encoder last applied and the text it returned

VARIABLES
    c_running,   \* TelemetryCollector._running
    stop_event,  \* TelemetryCollector._stop_event is set
    loops,       \* thread -> the thread with target _collection_loop: its
                 \* place, the VM it is at, the errors raised in its cycle
                 \* and the VMs collected in it
    collector_thread, \* self._collector_thread (0: None)
    stats,       \* self.stats: total_collections and total_errors
    caller,      \* the caller of start() and stop(): idle, or in stop() at
                 \* the join
    writers,     \* the InfluxConnector objects created by start()
    start_result \* what the last call of start() returned

VARIABLES
    tpc,         \* _trigger_dump_background: its place
    vm_ids,      \* the VMs requested
    poll_elapsed, \* elapsed
    iterations,  \* the iterations of the polling loop begun
    dump_statuses, \* the statuses of the last poll answered with 200
    last_trigger \* active_dumps['last_trigger']['status']

dumpVars == <<active, sem, nextId, w, mon, points, returned>>

sinkVars == <<dl, backlog>>

writerVars == <<variant, queue, running, stopped, wt, enq, nextRec, result,
                fate, overlapped, dequeued, enqueued, flushed>>

featureVars == <<prev_by_dom, emitted, update>>

encoderVars == <<tagIn, fieldIn, encoded>>

collectorVars == <<c_running, stop_event, loops, collector_thread, stats,
                   caller, writers, start_result>>

pollerVars == <<tpc, vm_ids, poll_elapsed, iterations, dump_statuses, last_trigger>>

\* What the steps of the dump service leave alone, and what the steps of
\* the writer leave alone.
notDumpVars ==
    <<writerVars, sinkVars, featureVars, encoderVars, collectorVars, pollerVars>>
notWriterVars ==
    <<dumpVars, sinkVars, featureVars, encoderVars, collectorVars, pollerVars>>
notSinkVars ==
    <<dumpVars, writerVars, featureVars, encoderVars, collectorVars, pollerVars>>
notFeatureVars ==
    <<dumpVars, writerVars, sinkVars, encoderVars, collectorVars, pollerVars>>
notEncoderVars ==
    <<dumpVars, writerVars, sinkVars, featureVars, collectorVars, pollerVars>>
notCollectorVars ==
    <<dumpVars, writerVars, sinkVars, featureVars, encoderVars, pollerVars>>
notPollerVars ==
    <<dumpVars, writerVars, sinkVars, featureVars, encoderVars, collectorVars>>

vars == <<active, sem, nextId, w, mon, points, returned, notDumpVars>>

\* ------------------------------------------------------------ DumpStatus

\* A key that _active_dumps does not hold (dict.get returns None).
NoRecord ==
    [dump_id |-> 0, state |-> "none", progress |-> 0, message |-> "none",
     started_at |-> "null", finished_at |-> "null", dump_path |-> 0,
     duration_sec |-> "null"]

\* DumpStatus(...) of trigger_dumps: the record of a new job.
QueuedStatus(id) ==
    [dump_id |-> id, state |-> "queued", progress |-> 0, message |-> "queued",
     started_at |-> "null", finished_at |-> "null", dump_path |-> 0,
     duration_sec |-> "null"]

Min(a, b) == IF a <= b THEN a ELSE b

\* Mutant of IsActive: a queued dump is not taken for an active one.
IsActiveOnlyRunning(st) == st.state = "running"

\* Mutant of IsActive: a running dump is not taken for an active one.
IsActiveOnlyQueued(st) == st.state = "queued"

\* Mutant of IsActive: a failed dump still counts as active, so that its key
\* is answered with the failed record.
IsActiveOrFailed(st) == st.state \in {"queued", "running", "failed"}

\* existing.state in ("queued", "running"): the key has an active dump.
IsActive(st) == st.state \in {"queued", "running"}

\* Mutant of MonitorProgress: the percentage is not capped at 100.
MonitorProgressUncapped(size, expected_bytes) ==
    IF expected_bytes > 0 THEN (size * 100) \div expected_bytes ELSE 0

\* progress = min(100.0, (size / expected_bytes) * 100.0), 0.0 when
\* expected_bytes is not positive.
MonitorProgress(size, expected_bytes) ==
    IF expected_bytes > 0 THEN Min(100, (size * 100) \div expected_bytes) ELSE 0

\* Mutant of RunningStatus: started_at and message are set, the state is not.
RunningStatusStateNotSet(st, id) ==
    IF st = NoRecord
    THEN [dump_id |-> id, state |-> "queued", progress |-> 0,
          message |-> "starting", started_at |-> "set",
          finished_at |-> "null", dump_path |-> 0, duration_sec |-> "null"]
    ELSE [st EXCEPT !.started_at = "set", !.message = "starting"]

\* The record the worker stores when it has its slot: the key's record with
\* state, started_at and message replaced (a new one when the key is absent).
RunningStatus(st, id) ==
    IF st = NoRecord
    THEN [dump_id |-> id, state |-> "running", progress |-> 0,
          message |-> "starting", started_at |-> "set",
          finished_at |-> "null", dump_path |-> 0, duration_sec |-> "null"]
    ELSE [st EXCEPT !.state = "running", !.started_at = "set",
                    !.message = "starting"]

\* Mutant of CompletedStatus: the progress is left to the monitor and stays
\* at the value of a new record.
CompletedStatusProgressNotSet(id, dump_path, duration_sec) ==
    [dump_id |-> id, state |-> "completed", progress |-> 0,
     message |-> "completed", started_at |-> "set", finished_at |-> "set",
     dump_path |-> dump_path, duration_sec |-> duration_sec]

\* The record the worker stores after write_influx_point returned.
CompletedStatus(id, dump_path, duration_sec) ==
    [dump_id |-> id, state |-> "completed", progress |-> 100,
     message |-> "completed", started_at |-> "set", finished_at |-> "set",
     dump_path |-> dump_path, duration_sec |-> duration_sec]

\* Mutant of FailedStatus: dump_path and duration_sec of the worker are not
\* put into the failed record.
FailedStatusDropsPath(st, id, dump_path, duration_sec) ==
    IF st = NoRecord
    THEN [dump_id |-> id, state |-> "failed", progress |-> 0,
          message |-> "failed", started_at |-> "set", finished_at |-> "set",
          dump_path |-> 0, duration_sec |-> "null"]
    ELSE [st EXCEPT !.state = "failed", !.progress = 0, !.message = "failed",
                    !.finished_at = "set"]

\* Mutant of FailedStatus: the progress of the record is left as it is.
FailedStatusKeepsProgress(st, id, dump_path, duration_sec) ==
    IF st = NoRecord
    THEN [dump_id |-> id, state |-> "failed", progress |-> 0,
          message |-> "failed", started_at |-> "set", finished_at |-> "set",
          dump_path |-> dump_path, duration_sec |-> duration_sec]
    ELSE [st EXCEPT !.state = "failed", !.message = "failed",
                    !.finished_at = "set", !.dump_path = dump_path,
                    !.duration_sec = duration_sec]

\* The record the except branch stores: the key's record with state,
\* progress, message, finished_at, dump_path and duration_sec replaced.
FailedStatus(st, id, dump_path, duration_sec) ==
    IF st = NoRecord
    THEN [dump_id |-> id, state |-> "failed", progress |-> 0,
          message |-> "failed", started_at |-> "set", finished_at |-> "set",
          dump_path |-> dump_path, duration_sec |-> duration_sec]
    ELSE [st EXCEPT !.state = "failed", !.progress = 0, !.message = "failed",
                    !.finished_at = "set", !.dump_path = dump_path,
                    !.duration_sec = duration_sec]

\* Mutant of MonitorStatus: the record is replaced whatever its state.
MonitorStatusAnyState(st, progress) ==
    IF st # NoRecord
    THEN [st EXCEPT !.progress = progress, !.message = "progress"]
    ELSE st

\* Mutant of MonitorStatus: a queued record is written as well.
MonitorStatusQueuedToo(st, progress) ==
    IF st # NoRecord /\ st.state \in {"queued", "running"}
    THEN [st EXCEPT !.progress = progress, !.message = "progress"]
    ELSE st

\* The record the monitor stores: the key's record with progress and
\* message replaced, written only while the key's record is running.
MonitorStatus(st, progress) ==
    IF st # NoRecord /\ st.state = "running"
    THEN [st EXCEPT !.progress = progress, !.message = "progress"]
    ELSE st

\* ------------------------------------------------------------ threads

\* No worker thread: never created, or ended (its locals are gone).
NoWorker ==
    [pc |-> "none", vm |-> "none", dump_path |-> 0, duration_sec |-> "null",
     progress_flag |-> FALSE]

\* No monitor thread: never created, or ended. A monitor holds the vm and
\* expected_bytes it was started with and its stop event (stop: the event is
\* set). size is the size of the output file at the monitor's last read (0:
\* missing or empty): the capture operation only appends to the file and
\* nothing else reads its size, so the next read returns at least this.
NoMonitor ==
    [pc |-> "none", vm |-> "none", expected_bytes |-> 0, stop |-> FALSE,
     size |-> 0]

DumpInit ==
    /\ active = [k \in Keys |-> NoRecord]
    /\ sem = MAX_PARALLEL_DUMPS
    /\ nextId = 1
    /\ w = [j \in Jobs |-> NoWorker]
    /\ mon = [j \in Jobs |-> NoMonitor]
    /\ points = [j \in Jobs |-> 0]
    /\ returned = [vm |-> "none", dump_id |-> 0]

\* A producer that is not inside enqueue.
NoEnqueue == [pc |-> "idle", rec |-> 0]

\* The writer after __init__ and start(): the thread is created, run() has
\* not yet executed a statement. InfluxWriter.__init__ sets _running to
\* True; InfluxConnector.__init__ sets it to False and run() sets it True.
WriterStart ==
    /\ queue = <<>>
    /\ running = (variant = "InfluxWriter")
    /\ stopped = FALSE
    /\ wt = [pc |-> "start", buf |-> <<>>, elapsed |-> 0]
    /\ enq = [p \in Producers |-> NoEnqueue]
    /\ nextRec = 1
    /\ result = [r \in Records |-> "none"]
    /\ fate = [r \in Records |-> "none"]
    /\ overlapped = FALSE
    /\ dequeued = FALSE
    /\ enqueued = <<>>
    /\ flushed = <<>>

\* A summary point whose worker has not yet hashed its dump.
NoDelivery == [pc |-> "idle", log |-> <<>>, state |-> "running"]

SinkStart ==
    /\ dl = [p \in SummaryPoints |-> NoDelivery]
    /\ backlog = <<>>

\* ------------------------------------------------------------ feature state

\* FEATURE_KEYS: the totals that get a rate and an angle (two of the eight;
\* the loop treats each alike).
FEATURE_KEYS == {"net_rxbytes", "disk_rd_bytes"}

\* The values of the tag "Dom".
Doms == {"d1", "d2"}

\* Timestamps are counted in microseconds, the resolution of datetime.
MaxTime == 2

Times == 0..MaxTime

\* EPS = 1e-12 (seconds): the unit in which the model counts time deltas,
\* so that a rate [num, den] stands for num / (den * 1e-12) per second.
EPS == 1

\* timedelta.total_seconds() of one microsecond, in units of EPS.
MICROSECOND == 1000000

\* A counter value large enough for atan to round to pi/2 when the time
\* delta is replaced by EPS.
BigCount == 12000

CounterValues == {0, 1, BigCount}

Totals == [FEATURE_KEYS -> CounterValues]

\* _prev_by_dom.get(dom) is None.
NoSnapshot == [ts |-> -1, c |-> [k \in FEATURE_KEYS |-> 0]]

\* No call of _compute_features_and_enqueue has been made.
NoCall == [dom |-> "none", prev |-> NoSnapshot, snap |-> NoSnapshot]

\* The module after import: _prev_by_dom = {}.
FeatureStart ==
    /\ prev_by_dom = [d \in Doms |-> NoSnapshot]
    /\ emitted = <<>>
    /\ update = NoCall

\* ------------------------------------------------------------ encoder inputs

\* The characters of a tag value: the four reserved ones and a letter.
Reserved == {"\\", " ", ",", "="}

Alphabet == Reserved \cup {"a"}

MaxTagLen == 2

TagValues == UNION {[1..n -> Alphabet] : n \in 0..MaxTagLen}

MaxInt == 2

\* A float is nan, inf, -inf, or the finite sign * (whole + tenth / 10).
Floats ==
    [class : {"nan", "inf", "-inf"}, neg : {FALSE}, whole : {0}, tenth : {0}]
    \cup [class : {"finite"}, neg : BOOLEAN, whole : 0..MaxInt, tenth : {0, 5}]

\* A field value with its Python type.
FieldValues ==
    [type : {"bool"}, v : BOOLEAN]
    \cup [type : {"int"}, v : (0 - MaxInt)..MaxInt]
    \cup [type : {"float"}, v : Floats]

\* No encoder has been applied.
NoOutput == [encoder |-> "none", tag |-> <<>>, field |-> <<>>, line |-> <<>>]

\* Nothing is being encoded.
EncoderStart ==
    /\ tagIn = <<>>
    /\ fieldIn = [type |-> "bool", v |-> FALSE]
    /\ encoded = NoOutput

\* --------------------------------------------------------- collector state

\* The threads start() can create, the VMs get_live_vms() lists, and the
\* cap of the counters of self.stats and of the calls of start().
MaxThreads == 2

LiveVms == 2

MaxCount == 2

MaxCalls == 3

Threads == 1 .. MaxThreads

\* A thread that start() has not created.
NoLoop == [pc |-> "none", i |-> 0, raised |-> FALSE, slept |-> "none"]

\* TelemetryCollector.__init__.
CollectorStart ==
    /\ c_running = FALSE
    /\ stop_event = FALSE
    /\ loops = [t \in Threads |-> NoLoop]
    /\ collector_thread = 0
    /\ stats = [total_collections |-> 0, total_errors |-> 0]
    /\ caller = "idle"
    /\ writers = 0
    /\ start_result = [calls |-> 0, value |-> FALSE]

\* ------------------------------------------------------------ poller state

\* max_wait_sec and poll_interval_sec of _trigger_dump_background (3600 and
\* 5 in the code), in seconds.
max_wait_sec == 4

poll_interval_sec == 2

\* The VMs a trigger can name.
PollVms == {"a", "b"}

\* What GET /api/dumps holds for a VM: no entry, or the state of its record.
PollStates == {"absent", "queued", "running", "completed", "failed"}

\* No trigger has been requested: active_dumps is empty.
PollerStart ==
    /\ tpc = "idle"
    /\ vm_ids = {}
    /\ poll_elapsed = 0
    /\ iterations = 0
    /\ dump_statuses = [vm \in PollVms |-> "absent"]
    /\ last_trigger = "none"

\* The dump service: no writer thread takes part (memdump_service.py does
\* not import one), and the call of write_influx_point is the one step
\* WriteSummary.
Init ==
    /\ DumpInit
    /\ variant = "none"
    /\ WriterStart
    /\ SinkStart
    /\ FeatureStart
    /\ CollectorStart
    /\ PollerStart
    /\ EncoderStart

\* ------------------------------------------------------------ trigger_dumps

\* Mutant of SubmitKey: a new job is created only while a slot is free.
SubmitKeyWaitsForSlot(k) ==
    /\ IF active[k] # NoRecord /\ IsActive(active[k])
       THEN /\ returned' = [vm |-> k, dump_id |-> active[k].dump_id]
            /\ UNCHANGED <<active, nextId, w>>
       ELSE /\ nextId <= MaxJobs
            /\ sem > 0
            /\ active' = [active EXCEPT ![k] = QueuedStatus(nextId)]
            /\ nextId' = nextId + 1
            /\ w' = [w EXCEPT ![nextId] = [NoWorker EXCEPT !.pc = "created", !.vm = k]]
            /\ returned' = [vm |-> k, dump_id |-> QueuedStatus(nextId).dump_id]
    /\ UNCHANGED <<sem, mon, points, notDumpVars>>

\* One iteration of the loop over req.vms, the part under _active_lock, for
\* the list entry k, in any of the threads that run trigger_dumps: an active
\* key is answered with its record; any other key gets a new queued record
\* and a worker thread object, which the iteration then starts. The entries
\* of one request are iterations one after the other, concurrent requests
\* are iterations in any order.
SubmitKey(k) ==
    /\ IF active[k] # NoRecord /\ IsActive(active[k])
       THEN /\ returned' = [vm |-> k, dump_id |-> active[k].dump_id]
            /\ UNCHANGED <<active, nextId, w>>
       ELSE /\ nextId <= MaxJobs
            /\ active' = [active EXCEPT ![k] = QueuedStatus(nextId)]
            /\ nextId' = nextId + 1
            /\ w' = [w EXCEPT ![nextId] = [NoWorker EXCEPT !.pc = "created", !.vm = k]]
            /\ returned' = [vm |-> k, dump_id |-> QueuedStatus(nextId).dump_id]
    /\ UNCHANGED <<sem, mon, points, notDumpVars>>

\* t.start() of the iteration that created job j, after the lock was
\* released.
StartWorker(j) ==
    /\ w[j].pc = "created"
    /\ w' = [w EXCEPT ![j].pc = "acquire"]
    /\ UNCHANGED <<active, sem, nextId, mon, points, returned, notDumpVars>>

\* ------------------------------------------------------------ _dump_worker

\* Mutant of Acquire: the worker goes on without waiting for a free slot.
AcquireNoWait(j) ==
    /\ w[j].pc = "acquire"
    /\ sem' = sem - 1
    /\ w' = [w EXCEPT ![j].pc = "setrun"]
    /\ UNCHANGED <<active, nextId, mon, points, returned, notDumpVars>>

\* _concurrency_sem.acquire(): blocks while no slot is free.
Acquire(j) ==
    /\ w[j].pc = "acquire"
    /\ sem > 0
    /\ sem' = sem - 1
    /\ w' = [w EXCEPT ![j].pc = "setrun"]
    /\ UNCHANGED <<active, nextId, mon, points, returned, notDumpVars>>

\* "Update status to running", under _active_lock.
SetRunning(j) ==
    /\ w[j].pc = "setrun"
    /\ active' = [active EXCEPT ![w[j].vm] = RunningStatus(@, j)]
    /\ w' = [w EXCEPT ![j].pc = "try"]
    /\ UNCHANGED <<sem, nextId, mon, points, returned, notDumpVars>>

\* lookup_domain raises: dump_path is still None and no monitor was started.
LookupFail(j) ==
    /\ w[j].pc = "try"
    /\ ~DomainExists[w[j].vm]
    /\ w' = [w EXCEPT ![j].pc = "except"]
    /\ UNCHANGED <<active, sem, nextId, mon, points, returned, notDumpVars>>

\* The domain is found: expected_bytes is read (0 when dom.maxMemory()
\* raises), dump_path is set, the monitor is started when expected_bytes > 0,
\* and dom.coreDumpWithFormat is entered.
StartCapture(j) ==
    /\ w[j].pc = "try"
    /\ DomainExists[w[j].vm]
    /\ \E expected_bytes \in {MaxMemory[w[j].vm], 0} :
          /\ w' = [w EXCEPT ![j].pc = "capture", ![j].dump_path = j,
                            ![j].progress_flag = (expected_bytes > 0)]
          /\ mon' = IF expected_bytes > 0
                    THEN [mon EXCEPT ![j] = [NoMonitor EXCEPT !.pc = "check",
                                                !.vm = w[j].vm,
                                                !.expected_bytes = expected_bytes]]
                    ELSE mon
    /\ UNCHANGED <<active, sem, nextId, points, returned, notDumpVars>>

\* progress_flag.set() when progress_flag is not None; nothing reads the
\* event of a monitor that has ended.
SetStop(j) ==
    IF w[j].progress_flag /\ mon[j].pc # "none"
    THEN [mon EXCEPT ![j].stop = TRUE]
    ELSE mon

\* coreDumpWithFormat or os.chmod raises: duration_sec is still None; the
\* except branch sets the monitor's stop event.
CaptureFail(j) ==
    /\ w[j].pc = "capture"
    /\ mon' = SetStop(j)
    /\ w' = [w EXCEPT ![j].pc = "except"]
    /\ UNCHANGED <<active, sem, nextId, points, returned, notDumpVars>>

\* coreDumpWithFormat returns: duration_sec is set and the monitor's stop
\* event is set.
CaptureDone(j) ==
    /\ w[j].pc = "capture"
    /\ mon' = SetStop(j)
    /\ w' = [w EXCEPT ![j].pc = "hash", ![j].duration_sec = "set"]
    /\ UNCHANGED <<active, sem, nextId, points, returned, notDumpVars>>

\* sha256_file or os.stat raises.
HashFail(j) ==
    /\ w[j].pc = "hash"
    /\ w' = [w EXCEPT ![j].pc = "except"]
    /\ UNCHANGED <<active, sem, nextId, mon, points, returned, notDumpVars>>

\* Mutant of WriteSummary: the summary point is not handed to the sink.
WriteSummarySkipped(j) ==
    /\ w[j].pc = "hash"
    /\ w' = [w EXCEPT ![j].pc = "complete"]
    /\ UNCHANGED <<active, sem, nextId, mon, points, returned, notDumpVars>>

\* The file is hashed and the summary point is handed to
\* write_influx_point, which returns.
WriteSummary(j) ==
    /\ w[j].pc = "hash"
    /\ points' = [points EXCEPT ![j] = @ + 1]
    /\ w' = [w EXCEPT ![j].pc = "complete"]
    /\ UNCHANGED <<active, sem, nextId, mon, returned, notDumpVars>>

\* The completed record is stored, under _active_lock.
WriteCompleted(j) ==
    /\ w[j].pc = "complete"
    /\ active' = [active EXCEPT ![w[j].vm] =
                     CompletedStatus(j, w[j].dump_path, w[j].duration_sec)]
    /\ w' = [w EXCEPT ![j].pc = "release"]
    /\ UNCHANGED <<sem, nextId, mon, points, returned, notDumpVars>>

\* Mutant of WriteFailed: the failed record is stored and the thread ends
\* there, with no finally that releases the slot.
WriteFailedKeepsSlot(j) ==
    /\ w[j].pc = "except"
    /\ active' = [active EXCEPT ![w[j].vm] =
                      FailedStatus(@, j, w[j].dump_path, w[j].duration_sec)]
    /\ w' = [w EXCEPT ![j] = [NoWorker EXCEPT !.pc = "done"]]
    /\ UNCHANGED <<sem, nextId, mon, points, returned, notDumpVars>>

\* The except branch stores the failed record, under _active_lock.
WriteFailed(j) ==
    /\ w[j].pc = "except"
    /\ active' = [active EXCEPT ![w[j].vm] =
                     FailedStatus(@, j, w[j].dump_path, w[j].duration_sec)]
    /\ w' = [w EXCEPT ![j].pc = "release"]
    /\ UNCHANGED <<sem, nextId, mon, points, returned, notDumpVars>>

\* Mutant of Release: the slot is released at the end of the try block, not
\* in a finally, so that a failed job keeps it.
ReleaseNotOnFailure(j) ==
    /\ w[j].pc = "release"
    /\ sem' = IF active[w[j].vm].state = "completed" THEN sem + 1 ELSE sem
    /\ w' = [w EXCEPT ![j] = [NoWorker EXCEPT !.pc = "done"]]
    /\ UNCHANGED <<active, nextId, mon, points, returned, notDumpVars>>

\* finally: _concurrency_sem.release(); the thread ends.
Release(j) ==
    /\ w[j].pc = "release"
    /\ sem' = sem + 1
    /\ w' = [w EXCEPT ![j] = [NoWorker EXCEPT !.pc = "done"]]
    /\ UNCHANGED <<active, nextId, mon, points, returned, notDumpVars>>

\* ------------------------------------------------------------ _monitor

\* while not stop_event.is_set(): the size of the output file is read
\* (getsize, 0 when the file is missing).
MonSample(j) ==
    /\ mon[j].pc = "check"
    /\ ~mon[j].stop
    /\ \E size \in mon[j].size..MaxSize :
          mon' = [mon EXCEPT ![j].pc = "write", ![j].size = size]
    /\ UNCHANGED <<active, sem, nextId, w, points, returned, notDumpVars>>

\* The progress is computed and, under _active_lock, the record of the
\* monitor's key is replaced when it is running; then the thread sleeps.
MonWrite(j) ==
    /\ mon[j].pc = "write"
    /\ active' = [active EXCEPT ![mon[j].vm] =
                     MonitorStatus(@, MonitorProgress(mon[j].size,
                                                      mon[j].expected_bytes))]
    /\ mon' = [mon EXCEPT ![j].pc = "check"]
    /\ UNCHANGED <<sem, nextId, w, points, returned, notDumpVars>>

\* The stop event is set: the loop and the thread end.
MonExit(j) ==
    /\ mon[j].pc = "check"
    /\ mon[j].stop
    /\ mon' = [mon EXCEPT ![j] = NoMonitor]
    /\ UNCHANGED <<active, sem, nextId, w, points, returned, notDumpVars>>

\* ------------------------------------------------------------ specification

Worker(j) ==
    \/ Acquire(j) \/ SetRunning(j) \/ LookupFail(j) \/ StartCapture(j)
    \/ CaptureFail(j) \/ CaptureDone(j) \/ HashFail(j) \/ WriteSummary(j)
    \/ WriteCompleted(j) \/ WriteFailed(j) \/ Release(j)

Monitor(j) == MonSample(j) \/ MonWrite(j) \/ MonExit(j)

Next ==
    \/ \E k \in Keys : SubmitKey(k)
    \/ \E j \in Jobs : StartWorker(j) \/ Worker(j) \/ Monitor(j)

Spec == Init /\ [][Next]_vars

\* Threads are scheduled fairly and every capture returns or raises: a
\* worker thread that can take a step takes one. Nothing is asked of the
\* monitors or of the callers of trigger_dumps.
Fairness == \A j \in Jobs : WF_vars(StartWorker(j)) /\ WF_vars(Worker(j))

FairSpec == Init /\ [][Next]_vars /\ Fairness

\* ------------------------------------------------------------ enqueue

\* Mutant of EnqueueFull: on a full queue the newest record is the one that
\* goes.
EnqueueFullEvictsNewest(p) ==
    /\ enq[p].pc = "full"
    /\ IF queue # <<>>
       THEN /\ queue' = SubSeq(queue, 1, Len(queue) - 1)
            /\ fate' = [fate EXCEPT ![queue[Len(queue)]] = "evicted"]
            /\ enq' = [enq EXCEPT ![p].pc = "put"]
            /\ UNCHANGED result
       ELSE /\ result' = [result EXCEPT ![enq[p].rec] =
                             IF variant = "InfluxConnector"
                             THEN "False" ELSE "Empty"]
            /\ enq' = [enq EXCEPT ![p] = NoEnqueue]
            /\ UNCHANGED <<queue, fate>>
    /\ UNCHANGED <<variant, running, stopped, wt, nextRec, overlapped,
                   dequeued, enqueued, flushed,
                   notWriterVars>>

\* enqueue(line), first statement: self.queue.put_nowait(line). With room
\* in the queue the record is appended and the call returns (True, in
\* InfluxConnector); on a full queue queue.Full is caught.
EnqueuePut(p) ==
    /\ enq[p].pc = "idle"
    /\ ~stopped
    /\ nextRec <= MaxRecords
    /\ IF Len(queue) < max_queue
       THEN /\ queue' = Append(queue, nextRec)
            /\ enqueued' = Append(enqueued, nextRec)
            /\ result' = [result EXCEPT ![nextRec] = "accepted"]
            /\ UNCHANGED enq
       ELSE /\ enq' = [enq EXCEPT ![p] = [pc |-> "full", rec |-> nextRec]]
            /\ result' = [result EXCEPT ![nextRec] = "calling"]
            /\ UNCHANGED <<queue, enqueued>>
    /\ nextRec' = nextRec + 1
    /\ overlapped' = (overlapped \/ \E p2 \in Producers : enq[p2].pc # "idle")
    /\ UNCHANGED <<variant, running, stopped, wt, fate, dequeued, flushed,
                   notWriterVars>>

\* except queue.Full: self.queue.get_nowait() takes the oldest record out.
\* On a queue that is empty by now it raises queue.Empty, which
\* InfluxConnector catches (return False) and InfluxWriter does not.
EnqueueFull(p) ==
    /\ enq[p].pc = "full"
    /\ IF queue # <<>>
       THEN /\ queue' = Tail(queue)
            /\ fate' = [fate EXCEPT ![Head(queue)] = "evicted"]
            /\ enq' = [enq EXCEPT ![p].pc = "put"]
            /\ UNCHANGED result
       ELSE /\ result' = [result EXCEPT ![enq[p].rec] =
                             IF variant = "InfluxConnector"
                             THEN "False" ELSE "Empty"]
            /\ enq' = [enq EXCEPT ![p] = NoEnqueue]
            /\ UNCHANGED <<queue, fate>>
    /\ UNCHANGED <<variant, running, stopped, wt, nextRec, overlapped,
                   dequeued, enqueued, flushed,
                   notWriterVars>>

\* The second self.queue.put_nowait(line), inside the handler of queue.Full:
\* on a queue that is full again queue.Full leaves enqueue (the inner try
\* catches queue.Empty only).
EnqueuePutAgain(p) ==
    /\ enq[p].pc = "put"
    /\ IF Len(queue) < max_queue
       THEN /\ queue' = Append(queue, enq[p].rec)
            /\ enqueued' = Append(enqueued, enq[p].rec)
            /\ result' = [result EXCEPT ![enq[p].rec] = "accepted"]
       ELSE /\ result' = [result EXCEPT ![enq[p].rec] = "Full"]
            /\ UNCHANGED <<queue, enqueued>>
    /\ enq' = [enq EXCEPT ![p] = NoEnqueue]
    /\ UNCHANGED <<variant, running, stopped, wt, nextRec, fate, overlapped,
                   dequeued, flushed,
                   notWriterVars>>

\* stop_writing() / stop(): self._running = False. The caller is the
\* producer itself (main of the script) or has joined it (the collector),
\* so no enqueue is in progress.
StopWriting ==
    /\ ~stopped
    /\ \A p \in Producers : enq[p].pc = "idle"
    /\ running' = FALSE
    /\ stopped' = TRUE
    /\ UNCHANGED <<variant, queue, wt, enq, nextRec, result, fate, overlapped,
                   dequeued, enqueued, flushed,
                   notWriterVars>>

\* ------------------------------------------------------------ run()

\* The records of a sequence.
Range(seq) == {seq[i] : i \in 1..Len(seq)}

\* should_flush: len(buf) >= self.batch_lines or
\* (time.time() - last_flush) >= self.batch_sec.
ShouldFlush(buf, elapsed) == Len(buf) >= batch_lines \/ elapsed >= batch_sec

\* The clock: one more tick since last_flush. The count stops at batch_sec,
\* from where on every test of the elapsed time gives the same answer.
Tick ==
    /\ wt.pc \in {"test", "get", "check"}
    /\ wt.elapsed < batch_sec
    /\ wt' = [wt EXCEPT !.elapsed = @ + 1]
    /\ UNCHANGED <<variant, queue, running, stopped, enq, nextRec, result,
                   fate, overlapped, dequeued, enqueued, flushed,
                   notWriterVars>>

\* run() begins: buf = [], last_flush = time.time(); InfluxConnector.run
\* also sets self._running = True.
RunStart ==
    /\ wt.pc = "start"
    /\ wt' = [wt EXCEPT !.pc = "test"]
    /\ running' = IF variant = "InfluxConnector" THEN TRUE ELSE running
    /\ UNCHANGED <<variant, queue, stopped, enq, nextRec, result, fate,
                   overlapped, dequeued, enqueued, flushed,
                   notWriterVars>>

\* while self._running or not self.queue.empty(): the thread leaves the
\* loop (and run()) when the test fails, with buf as it is.
LoopTest ==
    /\ wt.pc = "test"
    /\ wt' = [wt EXCEPT !.pc = IF running \/ queue # <<>>
                               THEN "get" ELSE "exited"]
    /\ UNCHANGED <<variant, queue, running, stopped, enq, nextRec, result,
                   fate, overlapped, dequeued, enqueued, flushed,
                   notWriterVars>>

\* Mutant of GetLine: the newest record of the queue is taken.
GetLineNewest ==
    /\ wt.pc = "get"
    /\ queue # <<>>
    /\ queue' = SubSeq(queue, 1, Len(queue) - 1)
    /\ wt' = [wt EXCEPT !.pc = "check", !.buf = Append(@, queue[Len(queue)])]
    /\ dequeued' = TRUE
    /\ UNCHANGED <<variant, running, stopped, enq, nextRec, result, fate,
                   overlapped, enqueued, flushed,
                   notWriterVars>>

\* line = self.queue.get(timeout=timeout); buf.append(line): the oldest
\* record, as soon as there is one.
GetLine ==
    /\ wt.pc = "get"
    /\ queue # <<>>
    /\ queue' = Tail(queue)
    /\ wt' = [wt EXCEPT !.pc = "check", !.buf = Append(@, Head(queue))]
    /\ dequeued' = TRUE
    /\ UNCHANGED <<variant, running, stopped, enq, nextRec, result, fate,
                   overlapped, enqueued, flushed,
                   notWriterVars>>

\* except queue.Empty: pass. The timeout, max(0.0, batch_sec - (time.time()
\* - last_flush)), has passed on an empty queue.
GetTimeout ==
    /\ wt.pc = "get"
    /\ queue = <<>>
    /\ wt.elapsed >= batch_sec
    /\ wt' = [wt EXCEPT !.pc = "check"]
    /\ UNCHANGED <<variant, queue, running, stopped, enq, nextRec, result,
                   fate, overlapped, dequeued, enqueued, flushed,
                   notWriterVars>>

\* Mutant of CheckFlush: the flush is decided by should_flush alone, also
\* when buf is empty.
CheckFlushEmptyToo ==
    /\ wt.pc = "check"
    /\ wt' = [wt EXCEPT !.pc = IF ShouldFlush(wt.buf, wt.elapsed)
                               THEN "flush" ELSE "test"]
    /\ UNCHANGED <<variant, queue, running, stopped, enq, nextRec, result,
                   fate, overlapped, dequeued, enqueued, flushed,
                   notWriterVars>>

\* if should_flush and buf: go and flush; else back to the loop test.
CheckFlush ==
    /\ wt.pc = "check"
    /\ wt' = [wt EXCEPT !.pc = IF ShouldFlush(wt.buf, wt.elapsed)
                                  /\ wt.buf # <<>>
                               THEN "flush" ELSE "test"]
    /\ UNCHANGED <<variant, queue, running, stopped, enq, nextRec, result,
                   fate, overlapped, dequeued, enqueued, flushed,
                   notWriterVars>>

\* What session.post(...) can end with: a response with status 200 or 204,
\* a response with another status, or requests.RequestException.
PostOutcomes == {"2xx", "other status", "RequestException"}

\* Mutant of FlushBatch: a request that fails ends the thread, with the
\* batch still in buf.
FlushBatchFailureEndsThread(outcome) ==
    /\ wt.pc = "flush"
    /\ flushed' = flushed \o wt.buf
    /\ IF outcome = "2xx"
       THEN /\ fate' = [r \in Records |->
                           IF r \in Range(wt.buf) THEN "ok" ELSE fate[r]]
            /\ wt' = [wt EXCEPT !.pc = "test", !.buf = <<>>, !.elapsed = 0]
       ELSE /\ wt' = [wt EXCEPT !.pc = "exited"]
            /\ UNCHANGED fate
    /\ UNCHANGED <<variant, queue, running, stopped, enq, nextRec, result,
                   overlapped, dequeued, enqueued,
                   notWriterVars>>

\* _flush_batch(session, buf) (inline in InfluxWriter.run): one POST of the
\* joined lines; a status other than 200/204 and a RequestException are
\* logged, nothing else is done with the batch. Then buf.clear() and
\* last_flush = time.time().
FlushBatch(outcome) ==
    /\ wt.pc = "flush"
    /\ flushed' = flushed \o wt.buf
    /\ fate' = [r \in Records |->
                   IF r \in Range(wt.buf)
                   THEN (IF outcome = "2xx" THEN "ok" ELSE "failed")
                   ELSE fate[r]]
    /\ wt' = [wt EXCEPT !.pc = "test", !.buf = <<>>, !.elapsed = 0]
    /\ UNCHANGED <<variant, queue, running, stopped, enq, nextRec, result,
                   overlapped, dequeued, enqueued,
                   notWriterVars>>

WriterInit ==
    /\ DumpInit
    /\ variant \in Variants
    /\ WriterStart
    /\ SinkStart
    /\ FeatureStart
    /\ CollectorStart
    /\ PollerStart
    /\ EncoderStart

WriterNext ==
    \/ \E p \in Producers : EnqueuePut(p) \/ EnqueueFull(p) \/ EnqueuePutAgain(p)
    \/ StopWriting
    \/ Tick
    \/ RunStart
    \/ LoopTest
    \/ GetLine
    \/ GetTimeout
    \/ CheckFlush
    \/ \E outcome \in PostOutcomes : FlushBatch(outcome)

WriterSpec == WriterInit /\ [][WriterNext]_vars

\* The clock advances and the writer thread is scheduled: as long as run()
\* can take a step it takes one. Nothing is asked of the callers of enqueue
\* and of stop_writing.
WriterFairness ==
    /\ WF_vars(Tick)
    /\ WF_vars(RunStart \/ LoopTest \/ GetLine \/ GetTimeout \/ CheckFlush
               \/ \E outcome \in PostOutcomes : FlushBatch(outcome))

WriterFairSpec == WriterInit /\ [][WriterNext]_vars /\ WriterFairness

\* ------------------------------------------------------------ write_influx_point

\* What requests.post can end with in write_influx_v3 and
\* write_influx_v2_fallback: a status below 300 (the function returns), a
\* status from 300 on (it raises RuntimeError), or an exception of requests.
WriteOutcomes == {"ok", "status >= 300", "exception"}

\* What the append to the backlog file can end with.
FileOutcomes == {"ok", "OSError"}

\* file_hash = sha256_file(dump_path); st_stat = os.stat(dump_path): when
\* they return the worker calls write_influx_point, when one raises the
\* worker is in its except branch.
HashDump(p, outcome) ==
    /\ dl[p].pc = "idle"
    /\ dl' = [dl EXCEPT ![p].pc = IF outcome = "ok" THEN "v3" ELSE "raise"]
    /\ UNCHANGED <<backlog, notSinkVars>>

\* Mutant of WriteV3: a failed primary write is tried again.
WriteV3Retried(p, outcome) ==
    /\ dl[p].pc = "v3"
    /\ dl' = [dl EXCEPT
                ![p].log = Append(@, <<"v3", outcome = "ok">>),
                ![p].pc = IF outcome = "ok" THEN "return" ELSE "v3"]
    /\ UNCHANGED <<backlog, notSinkVars>>

\* try: write_influx_v3(payload); return. except Exception: go on to the
\* fallback.
WriteV3(p, outcome) ==
    /\ dl[p].pc = "v3"
    /\ dl' = [dl EXCEPT
                ![p].log = Append(@, <<"v3", outcome = "ok">>),
                ![p].pc = IF outcome = "ok" THEN "return" ELSE "v2"]
    /\ UNCHANGED <<backlog, notSinkVars>>

\* try: write_influx_v2_fallback(payload); return. except Exception: go on
\* to the backlog.
WriteV2Fallback(p, outcome) ==
    /\ dl[p].pc = "v2"
    /\ dl' = [dl EXCEPT
                ![p].log = Append(@, <<"v2", outcome = "ok">>),
                ![p].pc = IF outcome = "ok" THEN "return" ELSE "backlog"]
    /\ UNCHANGED <<backlog, notSinkVars>>

\* Mutant of WriteBacklogLine: the append is not inside a try, and its
\* exception leaves write_influx_point.
WriteBacklogLineRaises(p, outcome) ==
    /\ dl[p].pc = "backlog"
    /\ dl' = [dl EXCEPT
                ![p].log = Append(@, <<"backlog", outcome = "ok">>),
                ![p].pc = IF outcome = "ok" THEN "return" ELSE "raise"]
    /\ backlog' = IF outcome = "ok" THEN Append(backlog, p) ELSE backlog
    /\ UNCHANGED notSinkVars

\* The text of the backlog file: for every point appended, the header line
\* "# <timestamp> | influx_write_failed | <error>" and then the point's line.
BacklogText(b) ==
    [i \in 1..(2 * Len(b)) |->
        IF i % 2 = 1 THEN <<"header", b[(i + 1) \div 2]>>
                     ELSE <<"line", b[i \div 2]>>]

\* Mutant of WriteBacklogLine: the file is opened with mode "w".
WriteBacklogLineTruncates(p, outcome) ==
    /\ dl[p].pc = "backlog"
    /\ dl' = [dl EXCEPT
                ![p].log = Append(@, <<"backlog", outcome = "ok">>),
                ![p].pc = "return"]
    /\ backlog' = IF outcome = "ok" THEN <<p>> ELSE backlog
    /\ UNCHANGED notSinkVars

\* _write_backlog_line(line, combined_err): header and line are appended to
\* the file; an exception of makedirs, open or write is logged and nothing
\* else is done.
WriteBacklogLine(p, outcome) ==
    /\ dl[p].pc = "backlog"
    /\ dl' = [dl EXCEPT
                ![p].log = Append(@, <<"backlog", outcome = "ok">>),
                ![p].pc = "return"]
    /\ backlog' = IF outcome = "ok" THEN Append(backlog, p) ELSE backlog
    /\ UNCHANGED notSinkVars

\* write_influx_point has returned: the worker stores the completed record.
StoreCompleted(p) ==
    /\ dl[p].pc = "return"
    /\ dl' = [dl EXCEPT ![p].pc = "done", ![p].state = "completed"]
    /\ UNCHANGED <<backlog, notSinkVars>>

\* except Exception: the worker stores the failed record.
StoreFailed(p) ==
    /\ dl[p].pc = "raise"
    /\ dl' = [dl EXCEPT ![p].pc = "done", ![p].state = "failed"]
    /\ UNCHANGED <<backlog, notSinkVars>>

SinkInit ==
    /\ DumpInit
    /\ variant = "none"
    /\ WriterStart
    /\ SinkStart
    /\ FeatureStart
    /\ CollectorStart
    /\ PollerStart
    /\ EncoderStart

SinkNext ==
    \E p \in SummaryPoints :
        \/ \E outcome \in FileOutcomes : HashDump(p, outcome)
        \/ \E outcome \in WriteOutcomes : WriteV3(p, outcome)
        \/ \E outcome \in WriteOutcomes : WriteV2Fallback(p, outcome)
        \/ \E outcome \in FileOutcomes : WriteBacklogLine(p, outcome)
        \/ StoreCompleted(p)
        \/ StoreFailed(p)

SinkSpec == SinkInit /\ [][SinkNext]_vars

\* ------------------------------------------------------------ _compute_features_and_enqueue

\* dt_s = (snap["ts"] - prev["ts"]).total_seconds(); if dt_s <= 0:
\* dt_s = EPS. In units of EPS.
DtSecondsInMilliseconds(prev, snap) ==
    IF snap.ts - prev.ts <= 0 THEN EPS
    ELSE (snap.ts - prev.ts) * 1000

\* Mutant of DtSeconds: a time delta that is not positive is used as it is.
DtSecondsNotReplaced(prev, snap) == (snap.ts - prev.ts) * MICROSECOND

DtSeconds(prev, snap) ==
    IF snap.ts - prev.ts <= 0 THEN EPS
    ELSE (snap.ts - prev.ts) * MICROSECOND

\* d = curr - old; if d < 0: d = 0.0; rate = d / (dt_s + EPS). The rate is
\* kept as the fraction the division is given; the float the code gets is
\* that fraction rounded once.
RateNoClamp(prev, snap, k) ==
    [num |-> snap.c[k] - prev.c[k], den |-> DtSeconds(prev, snap) + EPS]

Rate(prev, snap, k) ==
    LET d == snap.c[k] - prev.c[k]
    IN  [num |-> IF d < 0 THEN 0 ELSE d, den |-> DtSeconds(prev, snap) + EPS]

\* The least rate, in thousandths of 1e12 per second, for which
\* math.degrees(math.atan(rate)) is 90.0 in double precision: atan returns
\* the double nearest pi/2 from 5805358775541310 per second on.
ATAN_SATURATION == 5805359

\* angle_deg = math.degrees(math.atan(rate)) for rate >= 0, as the double it
\* returns: 0.0 for the rate 0, 90.0 from ATAN_SATURATION on, and a value
\* strictly between the two otherwise.
AngleDeg(rate) ==
    IF rate.num = 0 THEN "0"
    ELSE IF (1000 * rate.num) \div rate.den >= ATAN_SATURATION THEN "90"
    ELSE "below90"

\* lp_line("vm_features", dom_tags, {**fields_rate, **fields_angle}, ts).
FeatureLine(dom, prev, snap) ==
    [measurement |-> "vm_features", dom |-> dom, ts |-> snap.ts,
     rate |-> [k \in FEATURE_KEYS |-> Rate(prev, snap, k)],
     angle_deg |-> [k \in FEATURE_KEYS |-> AngleDeg(Rate(prev, snap, k))]]

\* lp_line("collector_latency", {"Dom": dom}, {"feature_latency_ms": ...}, ts).
LatencyLine(dom, snap) ==
    [measurement |-> "collector_latency", dom |-> dom, ts |-> snap.ts]

\* Mutant of ComputeFeaturesAndEnqueue: the new snapshot is merged into the
\* stored one, each counter keeping the larger of its two values.
ComputeFeaturesMergesSnapshot(dom, ts, totals) ==
    LET prev == prev_by_dom[dom]
        snap == [ts |-> ts, c |-> totals]
    IN  /\ emitted' = (IF prev # NoSnapshot
                       THEN <<FeatureLine(dom, prev, snap)>> ELSE <<>>)
                      \o <<LatencyLine(dom, snap)>>
        /\ prev_by_dom' =
              [prev_by_dom EXCEPT ![dom] =
                  [ts |-> ts,
                   c |-> [k \in FEATURE_KEYS |->
                            IF prev.c[k] > totals[k] THEN prev.c[k]
                            ELSE totals[k]]]]
        /\ update' = [dom |-> dom, prev |-> prev, snap |-> snap]
        /\ UNCHANGED notFeatureVars

ComputeFeaturesKeepsFirstSnapshot(dom, ts, totals) ==
    LET prev == prev_by_dom[dom]
        snap == [ts |-> ts, c |-> totals]
    IN  /\ emitted' = (IF prev # NoSnapshot
                       THEN <<FeatureLine(dom, prev, snap)>> ELSE <<>>)
                      \o <<LatencyLine(dom, snap)>>
        /\ prev_by_dom' = IF prev = NoSnapshot
                          THEN [prev_by_dom EXCEPT ![dom] = snap]
                          ELSE prev_by_dom
        /\ update' = [dom |-> dom, prev |-> prev, snap |-> snap]
        /\ UNCHANGED notFeatureVars

\* One call for the Dom dom with the timestamp ts and the totals of the
\* tracked counters: the feature line if there is a previous snapshot, the
\* new snapshot, the latency line.
ComputeFeaturesAndEnqueue(dom, ts, totals) ==
    LET prev == prev_by_dom[dom]
        snap == [ts |-> ts, c |-> totals]
    IN  /\ emitted' = (IF prev # NoSnapshot
                       THEN <<FeatureLine(dom, prev, snap)>> ELSE <<>>)
                      \o <<LatencyLine(dom, snap)>>
        /\ prev_by_dom' = [prev_by_dom EXCEPT ![dom] = snap]
        /\ update' = [dom |-> dom, prev |-> prev, snap |-> snap]
        /\ UNCHANGED notFeatureVars

FeatureInit ==
    /\ DumpInit
    /\ variant = "none"
    /\ WriterStart
    /\ SinkStart
    /\ FeatureStart
    /\ CollectorStart
    /\ PollerStart
    /\ EncoderStart

FeatureNext ==
    \E dom \in Doms, ts \in Times, totals \in Totals :
        ComputeFeaturesAndEnqueue(dom, ts, totals)

FeatureSpec == FeatureInit /\ [][FeatureNext]_vars

\* ------------------------------------------------------------ line protocol

\* str.replace(old, new) for a one-character old.
RECURSIVE Replace(_, _, _)
Replace(s, old, new) ==
    IF s = <<>> THEN <<>>
    ELSE (IF Head(s) = old THEN new ELSE <<Head(s)>>)
         \o Replace(Tail(s), old, new)

\* TelemetryCollector._escape_tag of collector.py: backslash, space, comma,
\* equals, in this order.
CollectorEscapeTag(value) ==
    Replace(Replace(Replace(Replace(value,
        "\\", <<"\\", "\\">>),
        " ", <<"\\", " ">>),
        ",", <<"\\", ",">>),
        "=", <<"\\", "=">>)

\* _esc_tag of getStats8remoteWithInfluxVerboseNovel.py: the same chain.
EscTag(v) ==
    Replace(Replace(Replace(Replace(v,
        "\\", <<"\\", "\\">>),
        " ", <<"\\", " ">>),
        ",", <<"\\", ",">>),
        "=", <<"\\", "=">>)

\* _escape_tag of memdump_service.py: comma, space, equals; the backslash
\* is not replaced.
MemdumpEscapeTag(s) ==
    Replace(Replace(Replace(s,
        ",", <<"\\", ",">>),
        " ", <<"\\", " ">>),
        "=", <<"\\", "=">>)

\* The decimal digits of a natural number, as str() and the f-strings
\* give them.
RECURSIVE Decimal(_)
Decimal(n) ==
    IF n < 10
    THEN <<<<"0", "1", "2", "3", "4", "5", "6", "7", "8", "9">>[n + 1]>>
    ELSE Decimal(n \div 10) \o Decimal(n % 10)

\* f"{v}" for an int v.
IntStr(v) == IF v < 0 THEN <<"-">> \o Decimal(0 - v) ELSE Decimal(v)

\* str(v) and f"{v}" for a finite float v with one decimal place.
FloatStr(v) ==
    (IF v.neg THEN <<"-">> ELSE <<>>)
    \o Decimal(v.whole) \o <<".">> \o Decimal(v.tenth)

\* TelemetryCollector._format_field_value of collector.py.
CollectorFormatFieldValue(value) ==
    IF value.type = "bool"
    THEN (IF value.v THEN <<"t", "r", "u", "e">> ELSE <<"f", "a", "l", "s", "e">>)
    ELSE IF value.type = "int" THEN IntStr(value.v) \o <<"i">>
    ELSE IF value.v.class # "finite" THEN <<"0">>
    ELSE FloatStr(value.v)

\* _fmt_field_value of getStats8remoteWithInfluxVerboseNovel.py.
FmtFieldValue(v) ==
    IF v.type = "bool"
    THEN (IF v.v THEN <<"t", "r", "u", "e">> ELSE <<"f", "a", "l", "s", "e">>)
    ELSE IF v.type = "int" THEN IntStr(v.v) \o <<"i">>
    ELSE IF v.v.class \in {"nan", "inf", "-inf"} THEN <<"0">>
    ELSE FloatStr(v.v)

\* The branch of to_line_protocol of memdump_service.py for one field value:
\* str(v).lower() for a bool, f"{v}" for an int, and for a float f"{val}"
\* with val = 0.0 in place of nan and inf.
MemdumpFieldValue(v) ==
    IF v.type = "bool"
    THEN (IF v.v THEN <<"t", "r", "u", "e">> ELSE <<"f", "a", "l", "s", "e">>)
    ELSE IF v.type = "int" THEN IntStr(v.v)
    ELSE IF v.v.class # "finite" THEN <<"0", ".", "0">>
    ELSE FloatStr(v.v)

\* The record of the measurement m with the one tag k, the one field f and
\* the timestamp 1: f"{measurement},{tag_str} {field_str} {ts_ns}".
Line(tag, field) ==
    <<"m", ",", "k", "=">> \o tag \o <<" ", "f", "=">> \o field \o <<" ", "1">>

\* TelemetryCollector._line_protocol.
LineProtocol ==
    /\ encoded' = [encoder |-> "collector",
                   tag |-> CollectorEscapeTag(tagIn),
                   field |-> CollectorFormatFieldValue(fieldIn),
                   line |-> Line(CollectorEscapeTag(tagIn),
                                 CollectorFormatFieldValue(fieldIn))]
    /\ UNCHANGED <<tagIn, fieldIn, notEncoderVars>>

\* lp_line.
LpLine ==
    /\ encoded' = [encoder |-> "getStats",
                   tag |-> EscTag(tagIn),
                   field |-> FmtFieldValue(fieldIn),
                   line |-> Line(EscTag(tagIn), FmtFieldValue(fieldIn))]
    /\ UNCHANGED <<tagIn, fieldIn, notEncoderVars>>

\* to_line_protocol, the encoder of the summary point of a dump.
ToLineProtocol ==
    /\ encoded' = [encoder |-> "memdump_service",
                   tag |-> MemdumpEscapeTag(tagIn),
                   field |-> MemdumpFieldValue(fieldIn),
                   line |-> Line(MemdumpEscapeTag(tagIn),
                                 MemdumpFieldValue(fieldIn))]
    /\ UNCHANGED <<tagIn, fieldIn, notEncoderVars>>

\* Any tag value and any field value are handed to the encoders.
EncoderInit ==
    /\ DumpInit
    /\ variant = "none"
    /\ WriterStart
    /\ SinkStart
    /\ FeatureStart
    /\ CollectorStart
    /\ PollerStart
    /\ tagIn \in TagValues
    /\ fieldIn \in FieldValues
    /\ encoded = NoOutput

EncoderNext ==
    \/ LineProtocol
    \/ LpLine
    \/ ToLineProtocol

EncoderSpec == EncoderInit /\ [][EncoderNext]_vars

\* ------------------------------------------------------------ job states

\* A worker that exists and has not yet stored a terminal record.
PreTerminal ==
    {"created", "acquire", "setrun", "try", "capture", "hash", "complete",
     "except"}

\* A worker between _concurrency_sem.acquire() and _concurrency_sem.release().
Holding == {"setrun", "try", "capture", "hash", "complete", "except", "release"}

\* ------------------------------------------------------------ C1

\* C1: for each VM key at most one worker has not yet stored a terminal
\* record, and that worker's job is the one the key's record shows as queued
\* or running; so at most one job per key is queued or running, however the
\* submit iterations for the key interleave.
C1_OneActiveJobPerKey ==
    \A k \in Keys :
        /\ Cardinality({j \in Jobs : w[j].vm = k /\ w[j].pc \in PreTerminal}) <= 1
        /\ \A j \in Jobs :
              (w[j].vm = k /\ w[j].pc \in PreTerminal) =>
                  /\ active[k].dump_id = j
                  /\ active[k].state \in {"queued", "running"}

\* A submit for a key was answered with the record of job j, which a
\* concurrent request created (a later job exists, so the answer is not the
\* one of the iteration that created j) and whose thread that request has
\* not yet started.
C1_Witness ==
    \E k \in Keys, j \in Jobs :
        /\ w[j].vm = k
        /\ w[j].pc = "created"
        /\ returned = [vm |-> k, dump_id |-> j]
        /\ nextId > j + 1

\* ------------------------------------------------------------ C2

\* C2: at most MAX_PARALLEL_DUMPS records are running and at most
\* MAX_PARALLEL_DUMPS captures are in progress, and neither number exceeds the
\* number of slots taken from the semaphore.
C2_AtMostNRunning ==
    LET inRunning == Cardinality({k \in Keys : active[k].state = "running"})
        capturing == Cardinality({j \in Jobs : w[j].pc = "capture"})
    IN  /\ inRunning <= MAX_PARALLEL_DUMPS
        /\ capturing <= MAX_PARALLEL_DUMPS
        /\ inRunning <= MAX_PARALLEL_DUMPS - sem
        /\ capturing <= MAX_PARALLEL_DUMPS - sem

\* More jobs than slots are submitted on distinct keys: every slot is taken
\* by a capture in progress and a further job waits, queued.
C2_Witness ==
    /\ Cardinality({j \in Jobs : w[j].pc = "capture"}) = MAX_PARALLEL_DUMPS
    /\ \E j \in Jobs :
          /\ w[j].pc = "acquire"
          /\ active[w[j].vm] = QueuedStatus(j)

\* ------------------------------------------------------------ C3

\* C3: while the record of key k is queued or running, a submit for k is a
\* no-op: the entry it returns carries the dump id of that record, and the
\* step changes nothing else (no record, no worker, no slot, no id); more,
\* no step at all gives k a record under another dump id or a new worker.
C3_SubmitActiveIsNoOp ==
    [][\A k \in Keys :
          active[k].state \in {"queued", "running"} =>
              /\ active'[k].dump_id = active[k].dump_id
              /\ \A j \in Jobs :
                    (w[j].pc = "none" /\ w'[j].pc # "none") => w'[j].vm # k
              /\ (returned' # returned /\ returned'.vm = k) =>
                    /\ returned'.dump_id = active[k].dump_id
                    /\ UNCHANGED <<active, sem, nextId, w, mon, points>>]_vars

\* The last submit was answered with the record of a job that was not the
\* newest one, that is, with an existing record, and that job is running.
C3_Witness ==
    /\ returned.dump_id # 0
    /\ returned.dump_id < nextId - 1
    /\ active[returned.vm].dump_id = returned.dump_id
    /\ active[returned.vm].state = "running"

\* ------------------------------------------------------------ C4

\* C4: a submit for a key with no record, or whose record is completed or
\* failed, stores a new queued record with progress 0 under a dump id no
\* worker was created with before, returns that id, and creates exactly one
\* worker, for that id and key; it changes no other record.
C4_SubmitCreatesFreshJob ==
    [][\A k \in Keys :
          ( /\ active[k].state \in {"none", "completed", "failed"}
            /\ returned' # returned
            /\ returned'.vm = k ) =>
              LET id == returned'.dump_id IN
                  /\ id \in Jobs
                  /\ w[id].pc = "none"
                  /\ \A k2 \in Keys : active[k2].dump_id # id
                  /\ active'[k] = QueuedStatus(id)
                  /\ active'[k].state = "queued" /\ active'[k].progress = 0
                  /\ \A k2 \in Keys \ {k} : active'[k2] = active[k2]
                  /\ w'[id].pc = "created" /\ w'[id].vm = k
                  /\ \A j \in Jobs \ {id} : w'[j] = w[j]]_vars

\* The first job of a key has stored its terminal record and a further
\* submit for the key has been answered with a new queued record.
C4_Witness ==
    \E k \in Keys :
        /\ returned = [vm |-> k, dump_id |-> 2]
        /\ active[k] = QueuedStatus(2)
        /\ w[1].pc \in {"release", "done"}
        /\ \A k2 \in Keys \ {k} : active[k2] = NoRecord

\* ------------------------------------------------------------ C5

\* C5: the states read from the status store for one dump id follow the
\* order queued, running, then completed or failed: a step that keeps the
\* dump id of a key's record leaves the state or moves it one step along
\* that order, and a record under another dump id starts queued, under an
\* id no worker was created with before.
C5_StateOrder ==
    [][\A k \in Keys :
          IF active'[k].dump_id = active[k].dump_id
          THEN \/ active'[k].state = active[k].state
               \/ <<active[k].state, active'[k].state>> \in
                     {<<"queued", "running">>, <<"running", "completed">>,
                      <<"running", "failed">>}
          ELSE /\ active'[k].state = "queued"
               /\ w[active'[k].dump_id].pc = "none"]_vars

\* One job has gone through the order to completed, another to failed.
C5_Witness ==
    \E k1, k2 \in Keys :
        /\ active[k1].state = "completed"
        /\ active[k2].state = "failed"

\* ------------------------------------------------------------ C6

\* C6, as claimed: the record of every dump id ever created is still in the
\* status store. The store is keyed by VM, and a submit for a key whose
\* record is completed or failed replaces that record.
C6_EveryJobRetrievable ==
    \A j \in Jobs :
        w[j].pc # "none" => \E k \in Keys : active[k].dump_id = j

\* C6, amended: a key that has a record keeps having one, and a completed
\* or failed record changes in no field for as long as it is the key's
\* record: the only step that changes it is a submit for the same key, which
\* replaces it by a new queued record under a new dump id.
C6_TerminalRecordsFinal ==
    [][\A k \in Keys :
          /\ active[k] # NoRecord => active'[k] # NoRecord
          /\ active[k].state \in {"completed", "failed"} =>
                \/ active'[k] = active[k]
                \/ /\ active'[k] = QueuedStatus(nextId)
                   /\ returned' = [vm |-> k, dump_id |-> nextId]
                   /\ w[nextId].pc = "none"]_vars

\* A completed record is in the store while the monitor of its job still
\* has a write to make.
C6_Witness ==
    \E k \in Keys :
        /\ active[k].state = "completed"
        /\ \E j \in Jobs :
              /\ mon[j].pc = "write"
              /\ mon[j].vm = k
              /\ active[k].dump_id = j

\* ------------------------------------------------------------ C7

\* C7: the free slots and the workers between acquire and release add up to
\* MAX_PARALLEL_DUMPS; so a worker that has ended, on the success path or on
\* a failure path, has given its slot back, once, and with no worker between
\* acquire and release every slot is free.
C7_SlotsBalance ==
    /\ sem \in 0..MAX_PARALLEL_DUMPS
    /\ sem + Cardinality({j \in Jobs : w[j].pc \in Holding}) = MAX_PARALLEL_DUMPS

\* Every worker has ended, one after a failure past the capture and one
\* after a failed domain lookup, and every slot is free.
C7_Witness ==
    /\ sem = MAX_PARALLEL_DUMPS
    /\ \A j \in Jobs : w[j].pc = "done"
    /\ \E k \in Keys : active[k].state = "failed" /\ active[k].dump_path # 0
    /\ \E k \in Keys : active[k].state = "failed" /\ active[k].dump_path = 0

\* ------------------------------------------------------------ C8

\* C8: under fair scheduling of the worker threads, with every capture
\* returning or raising, every job that was submitted (its queued record is
\* in the store) reaches state completed or failed; also with more jobs than
\* slots and with jobs that fail.
C8_EveryJobTerminates ==
    \A k \in Keys, j \in Jobs :
        (active[k].dump_id = j /\ active[k].state = "queued")
            ~> (active[k].dump_id = j
                /\ active[k].state \in {"completed", "failed"})

\* A queued job waits for a slot while no slot is free and a holder of a
\* slot has failed and not yet released it.
C8_Witness ==
    \E j1, j2 \in Jobs :
        /\ sem = 0
        /\ w[j1].pc = "acquire"
        /\ active[w[j1].vm] = QueuedStatus(j1)
        /\ w[j2].pc = "release"
        /\ active[w[j2].vm].state = "failed"

\* ------------------------------------------------------------ C9

\* C9, as claimed: while the record of a dump id is in state running, no
\* step lowers its progress. (The size a monitor reads never shrinks.)
C9_ProgressNeverDecreases ==
    [][\A k \in Keys :
          ( /\ active[k].state = "running"
            /\ active'[k].state = "running"
            /\ active'[k].dump_id = active[k].dump_id ) =>
              active'[k].progress >= active[k].progress]_vars

\* ------------------------------------------------------------ C10

\* C10: every record in state completed has progress 100, a result path, a
\* duration, a start time and a finish time.
C10_CompletedRecordFilled ==
    \A k \in Keys :
        active[k].state = "completed" =>
            /\ active[k].progress = 100
            /\ active[k].dump_path # 0
            /\ active[k].duration_sec # "null"
            /\ active[k].started_at # "null"
            /\ active[k].finished_at # "null"

\* A job of a VM whose memory size is not known, which has no monitor and
\* whose progress no monitor ever set, has completed.
C10_Witness ==
    \E k \in Keys :
        /\ MaxMemory[k] = 0
        /\ active[k].state = "completed"
        /\ w[active[k].dump_id].pc = "done"

\* ------------------------------------------------------------ C11

\* C11: while the completed record of a job is in the store, the job has
\* handed exactly one summary point to the sink (so the point was handed
\* before the record became visible); while its failed record is in the
\* store it has handed none; no job hands more than one.
C11_OneSummaryPointPerCompletedJob ==
    /\ \A j \in Jobs : points[j] <= 1
    /\ \A k \in Keys :
          /\ active[k].state = "completed" => points[active[k].dump_id] = 1
          /\ active[k].state = "failed" => points[active[k].dump_id] = 0
    /\ \A j \in Jobs : w[j].pc = "complete" => points[j] = 1

\* One job has ended completed, and another one has ended failed after its
\* capture had returned, that is, in the hashing before the summary point.
C11_Witness ==
    \E k1, k2 \in Keys :
        /\ active[k1].state = "completed"
        /\ w[active[k1].dump_id].pc = "done"
        /\ active[k2].state = "failed"
        /\ active[k2].duration_sec = "set"
        /\ w[active[k2].dump_id].pc = "done"

\* ------------------------------------------------------------ C12

\* C12: the step of a worker out of its except branch stores, for the
\* worker's key, a record of the worker's dump id in state failed, with the
\* error message and with the dump path and duration the worker had (null
\* when not yet known); it changes no other key's record and takes no slot,
\* and the worker's next step gives its slot back and changes no record.
C12_FailureIsIsolated ==
    [][\A j \in Jobs :
          /\ (w[j].pc = "except" /\ w'[j].pc # "except") =>
                /\ w'[j].pc = "release"
                /\ active'[w[j].vm].dump_id = j
                /\ active'[w[j].vm].state = "failed"
                /\ active'[w[j].vm].message = "failed"
                /\ active'[w[j].vm].dump_path = w[j].dump_path
                /\ active'[w[j].vm].duration_sec = w[j].duration_sec
                /\ \A k \in Keys \ {w[j].vm} : active'[k] = active[k]
                /\ \A j2 \in Jobs \ {j} : w'[j2] = w[j2]
                /\ sem' = sem
          /\ (w[j].pc = "release" /\ w'[j].pc # "release") =>
                /\ w'[j].pc = "done"
                /\ sem' = sem + 1
                /\ active' = active]_vars

\* A job whose capture raised (path known, duration not) has ended and holds
\* no slot, while a job on another key holds one.
C12_Witness ==
    \E j1, j2 \in Jobs :
        /\ w[j1].pc = "done"
        /\ \E k \in Keys :
              /\ active[k].dump_id = j1
              /\ active[k].state = "failed"
              /\ active[k].dump_path # 0
              /\ active[k].duration_sec = "null"
        /\ w[j2].pc \in {"try", "capture", "hash", "complete"}
        /\ active[w[j2].vm].dump_id = j2
        /\ active[w[j2].vm].state = "running"

\* ------------------------------------------------------------ C13

C14_EnqueueAlwaysAccepts ==
    \A r \in Records : result[r] \in {"none", "calling", "accepted"}

\* ------------------------------------------------------------ C15

\* C15, as claimed: when the writer thread has left run(), the queue and
\* buf are empty, and every record that enqueue accepted (all of them before
\* the stop signal) and that was not evicted has been in a batch handed to
\* the flush.
C15_DrainedAtExit ==
    wt.pc = "exited" =>
        /\ queue = <<>>
        /\ wt.buf = <<>>
        /\ \A r \in Records :
              (result[r] = "accepted" /\ fate[r] # "evicted") =>
                  fate[r] \in {"ok", "failed"}

\* ------------------------------------------------------------ C16

\* C16: the step of the writer loop that decides about a flush goes to the
\* flush exactly when buf is not empty and either holds batch_lines records
\* or batch_sec has passed since the last flush; a flush starts nowhere
\* else; so the batch handed to the POST is never empty and never longer
\* than batch_lines.
C16_FlushExactlyOnSizeOrTime ==
    /\ [](Len(wt.buf) <= batch_lines)
    /\ [](wt.pc = "flush" => Len(wt.buf) >= 1)
    /\ [][ /\ (wt.pc = "check" /\ wt'.pc # "check") =>
                ( wt'.pc = "flush" <=>
                    ( /\ wt.buf # <<>>
                      /\ \/ Len(wt.buf) >= batch_lines
                         \/ wt.elapsed >= batch_sec ) )
           /\ (wt.pc # "flush" /\ wt'.pc = "flush") => wt.pc = "check"
         ]_vars

\* A full batch is about to be flushed before batch_sec has passed, after an
\* earlier batch was flushed.
C16_Witness ==
    /\ wt.pc = "flush"
    /\ Len(wt.buf) = batch_lines
    /\ wt.elapsed < batch_sec
    /\ \E r \in Records : fate[r] \in {"ok", "failed"}

\* ------------------------------------------------------------ C17

\* C17: the flush step, whatever the request ends with, clears buf and goes
\* back to the loop test, and changes neither the queue nor any enqueue call
\* or its result; the thread leaves the loop only by the loop test, when
\* _running is False and the queue is empty.
C17_FailedFlushKeepsLoopGoing ==
    [][ /\ (wt.pc = "flush" /\ wt'.pc # "flush") =>
              /\ wt'.pc = "test"
              /\ wt'.buf = <<>>
              /\ \A r \in Range(wt.buf) : fate'[r] \in {"ok", "failed"}
              /\ UNCHANGED <<queue, enq, result, running>>
        /\ (wt.pc # "exited" /\ wt'.pc = "exited") =>
              /\ wt.pc = "test"
              /\ ~running
              /\ queue = <<>>
      ]_vars

\* The request of one batch has failed, the request of a later batch has
\* succeeded, and a record enqueued after the failure is in the queue.
C17_Witness ==
    \E r1, r2, r3 \in Records :
        /\ r1 < r2 /\ r2 < r3
        /\ fate[r1] = "failed"
        /\ fate[r2] = "ok"
        /\ queue = <<r3>>

\* ------------------------------------------------------------ C18

\* C18, as claimed: no record handed to a flush is discarded. (The batch
\* writer posts a batch once, to one endpoint, and has no backlog file.)
C18_NoRecordDiscarded ==
    \A r \in Records : fate[r] # "failed"

\* ------------------------------------------------------------ C19

\* C19: a delivery makes at most one attempt on the primary protocol, then,
\* only after that failed, at most one on the secondary, then, only after
\* both failed, exactly one write to the backlog; nothing is tried twice,
\* and a delivery that has returned has ended with a primary write that
\* succeeded, or a secondary write that succeeded, or the one write to the
\* backlog.
C19_OneAttemptEach ==
    LET open == {<<>>, <<<<"v3", FALSE>>>>,
                 <<<<"v3", FALSE>>, <<"v2", FALSE>>>>}
        closed == {<<<<"v3", TRUE>>>>, <<<<"v3", FALSE>>, <<"v2", TRUE>>>>}
                  \cup {<<<<"v3", FALSE>>, <<"v2", FALSE>>, <<"backlog", ok>>>> :
                           ok \in BOOLEAN}
    IN  \A p \in SummaryPoints :
            /\ dl[p].log \in open \cup closed
            /\ dl[p].pc \in {"v3", "v2", "backlog"} => dl[p].log \in open
            /\ (dl[p].pc \in {"return", "done"} /\ dl[p].log # <<>>) =>
                  dl[p].log \in closed
            /\ Cardinality({i \in 1..Len(backlog) : backlog[i] = p}) <= 1
            /\ (\E i \in 1..Len(backlog) : backlog[i] = p) <=>
                  (Len(dl[p].log) = 3 /\ dl[p].log[3] = <<"backlog", TRUE>>)

\* One delivery has ended with the secondary write, another one with the
\* write to the backlog.
C19_Witness ==
    \E p1, p2 \in SummaryPoints :
        /\ dl[p1].pc = "done"
        /\ dl[p1].log = <<<<"v3", FALSE>>, <<"v2", TRUE>>>>
        /\ dl[p2].pc = "done"
        /\ dl[p2].log = <<<<"v3", FALSE>>, <<"v2", FALSE>>, <<"backlog", TRUE>>>>
        /\ backlog = <<p2>>

\* ------------------------------------------------------------ C20

\* C20: no exception leaves write_influx_point: a worker that has called
\* it (its dump was captured and hashed) is never in its except branch and
\* never stores a failed record, whatever the primary write, the secondary
\* write and the write to the backlog ended with.
C20_DeliveryNeverRaises ==
    \A p \in SummaryPoints :
        dl[p].log # <<>> => (dl[p].pc # "raise" /\ dl[p].state # "failed")

\* The worker has stored completed after the primary write, the secondary
\* write and the write to the backlog had all failed.
C20_Witness ==
    \E p \in SummaryPoints :
        /\ dl[p].state = "completed"
        /\ dl[p].log = <<<<"v3", FALSE>>, <<"v2", FALSE>>, <<"backlog", FALSE>>>>
        /\ \A i \in 1..Len(backlog) : backlog[i] # p

\* ------------------------------------------------------------ C27

\* C27, as claimed: a key that the validation of identifiers rejects never
\* gets a job record and never a worker (which would take a slot).
C27_BadKeyRejected ==
    \A k \in Keys :
        ExtractVmid(k).raises =>
            /\ active[k] = NoRecord
            /\ \A j \in Jobs : w[j].vm # k

\* ------------------------------------------------------------ C28

\* C28, as claimed: the step that stores the failed record leaves the
\* progress of the record as it was.
C28_FailureKeepsProgress ==
    [][\A j \in Jobs :
          (w[j].pc = "except" /\ w'[j].pc # "except") =>
              active'[w[j].vm].progress = active[w[j].vm].progress]_vars

\* C28, amended: the step that stores the failed record sets its progress to
\* 0, whatever the progress was before; no failed record has another
\* progress.
C28_FailureResetsProgress ==
    /\ [](\A k \in Keys : active[k].state = "failed" => active[k].progress = 0)
    /\ [][\A j \in Jobs :
             (w[j].pc = "except" /\ w'[j].pc # "except") =>
                 active'[w[j].vm].progress = 0]_vars

\* A job is in its except branch while its running record shows progress
\* above 0.
C28_Witness ==
    \E j \in Jobs :
        /\ w[j].pc = "except"
        /\ active[w[j].vm].dump_id = j
        /\ active[w[j].vm].state = "running"
        /\ active[w[j].vm].progress > 0

\* ------------------------------------------------------------ C29

\* C29: the writing step of a monitor changes the record of its key only if
\* that record is running, and then only progress and message; it changes
\* no other key's record; a queued, completed or failed record is left as it
\* is, also by a monitor that runs once more after its job has ended.
C29_MonitorWritesProgressOnly ==
    [][\A j \in Jobs :
          (mon[j].pc = "write" /\ mon'[j].pc # "write") =>
              LET k == mon[j].vm IN
                  /\ \A k2 \in Keys \ {k} : active'[k2] = active[k2]
                  /\ active[k].state # "running" => active'[k] = active[k]
                  /\ active[k].state = "running" =>
                        active'[k] = [active[k] EXCEPT
                                         !.progress = active'[k].progress,
                                         !.message = active'[k].message]
                  /\ UNCHANGED <<sem, nextId, w, points, returned>>]_vars

\* A monitor has a write to make after its job has stored the failed record
\* and has ended.
C29_Witness ==
    \E j \in Jobs :
        /\ mon[j].pc = "write"
        /\ w[j].pc = "done"
        /\ active[mon[j].vm].dump_id = j
        /\ active[mon[j].vm].state = "failed"

\* ------------------------------------------------------------ C30

\* C30, as claimed: a monitor changes no record but the one of its own job:
\* a writing step of the monitor started for job j that changes the record
\* of its key finds that record under dump id j.
C30_MonitorWritesOwnJobOnly ==
    [][\A j \in Jobs :
          ( /\ mon[j].pc = "write"
            /\ mon'[j].pc # "write"
            /\ active'[mon[j].vm] # active[mon[j].vm] ) =>
              active[mon[j].vm].dump_id = j]_vars

\* ------------------------------------------------------------ C21

C23_RegressionGivesZeroRate ==
    \A i \in 1..Len(emitted) :
        emitted[i].measurement = "vm_features" =>
            \A k \in FEATURE_KEYS :
                /\ emitted[i].rate[k].num >= 0
                /\ emitted[i].rate[k].den > 0
                /\ update.snap.c[k] < update.prev.c[k] =>
                      emitted[i].rate[k].num = 0

\* One counter fell from BigCount to 1 and has rate 0 while the other rose
\* and has a positive rate.
C23_Witness ==
    /\ update.prev # NoSnapshot
    /\ update.prev.c["net_rxbytes"] = BigCount
    /\ update.snap.c["net_rxbytes"] = 1
    /\ update.prev.c["disk_rd_bytes"] = 0
    /\ update.snap.c["disk_rd_bytes"] = 1
    /\ emitted[1].measurement = "vm_features"
    /\ emitted[1].rate["net_rxbytes"].num = 0
    /\ emitted[1].rate["disk_rd_bytes"].num = 1

\* ------------------------------------------------------------ C24

C25_TagEscapingInvertible ==
    encoded.encoder # "none" =>
        LET RECURSIVE TagValue(_)
            TagValue(s) ==
                IF s = <<>> THEN <<>>
                ELSE IF Head(s) = "\\" /\ Len(s) >= 2 /\ s[2] \in Reserved
                THEN <<s[2]>> \o TagValue(SubSeq(s, 3, Len(s)))
                ELSE IF Head(s) \in {" ", ","} THEN <<>>
                ELSE <<Head(s)>> \o TagValue(Tail(s))
            escape(v) ==
                IF encoded.encoder = "collector" THEN CollectorEscapeTag(v)
                ELSE IF encoded.encoder = "getStats" THEN EscTag(v)
                ELSE MemdumpEscapeTag(v)
            backslashes(s) == Len(SelectSeq(s, LAMBDA c : c = "\\"))
            others(s) == Len(SelectSeq(s, LAMBDA c : c \in Reserved \ {"\\"}))
        IN  /\ TagValue(SubSeq(encoded.line, 5, Len(encoded.line))) = tagIn
            /\ \A other \in TagValues :
                  escape(other) = encoded.tag => other = tagIn
            /\ backslashes(encoded.tag) =
                  2 * backslashes(tagIn) + others(tagIn)

\* ------------------------------------------------------------ C26

\* C26: whichever encoder built the record, an integer field is rendered
\* as its digits followed by the suffix i, which the rendering of no float
\* has; a boolean field is rendered as true or false; and a float that is
\* NaN or infinite is rendered as zero.
C26_FieldTyping ==
    encoded.encoder # "none" =>
        /\ fieldIn.type = "int" => encoded.field = IntStr(fieldIn.v) \o <<"i">>
        /\ fieldIn.type = "bool" =>
              encoded.field = IF fieldIn.v THEN <<"t", "r", "u", "e">>
                              ELSE <<"f", "a", "l", "s", "e">>
        /\ fieldIn.type = "float" =>
              /\ encoded.field[Len(encoded.field)] # "i"
              /\ fieldIn.v.class # "finite" =>
                    encoded.field \in {<<"0">>, <<"0", ".", "0">>}

\* ------------------------------------------------------------ C31

\* C31: the progress of every record is between 0 and 100; and a monitor
\* that replaces a running record stores min(100, size * 100 /
\* expected_bytes) for the size it read: 0 for a missing (or empty) output
\* file, 100 for a file of the expected size or more.
C31_ProgressWithinBounds ==
    /\ [](\A k \in Keys : active[k].progress \in 0..100)
    /\ [][\A j \in Jobs :
             (/\ mon[j].pc = "write"
              /\ mon'[j].pc # "write"
              /\ active[mon[j].vm].state = "running") =>
                LET progress == active'[mon[j].vm].progress IN
                   /\ mon[j].size = 0 => progress = 0
                   /\ mon[j].size >= mon[j].expected_bytes => progress = 100
                   /\ progress * mon[j].expected_bytes <= mon[j].size * 100
                   /\ progress < 100 =>
                         (progress + 1) * mon[j].expected_bytes > mon[j].size * 100
         ]_vars

\* The output file has grown beyond the expected size and the monitor has
\* stored the progress 100 for it.
C31_Witness ==
    \E j \in Jobs :
        /\ mon[j].pc = "check"
        /\ mon[j].size > mon[j].expected_bytes
        /\ w[j].pc = "capture"
        /\ active[mon[j].vm].dump_id = j
        /\ active[mon[j].vm].state = "running"
        /\ active[mon[j].vm].progress = 100

\* ------------------------------------------------------------ C32

C36_NoMonitorNoProgress ==
    \A j \in Jobs :
        (w[j].pc \in {"capture", "hash", "complete"} /\ ~w[j].progress_flag) =>
            /\ mon[j] = NoMonitor
            /\ (active[w[j].vm].dump_id = j /\ active[w[j].vm].state = "running")
                  => active[w[j].vm].progress = 0

\* ------------------------------------------------------------ C37

\* C37: trigger_dumps does not wait for a slot. While job ids are left, the
\* submission of a key that has no active dump can be made in every state,
\* also when no slot is free; it stores a queued record and leaves the
\* semaphore alone. A job whose worker has not passed the semaphore has a
\* queued record and no capture, and the worker passes the semaphore only
\* by taking a free slot.
C37_SubmitNeverWaits ==
    /\ [](\A k \in Keys :
             (nextId <= MaxJobs /\ ~IsActive(active[k])) => ENABLED SubmitKey(k))
    /\ [](\A j \in Jobs :
             w[j].pc \in {"created", "acquire"} =>
                /\ active[w[j].vm].dump_id = j
                /\ active[w[j].vm].state = "queued"
                /\ w[j].dump_path = NoWorker.dump_path
                /\ mon[j] = NoMonitor)
    /\ [][/\ nextId' # nextId =>
                /\ sem' = sem
                /\ returned'.dump_id = nextId
                /\ active'[returned'.vm] = QueuedStatus(nextId)
          /\ \A j \in Jobs :
                (w[j].pc = "acquire" /\ w'[j].pc # "acquire") =>
                    (sem > 0 /\ sem' = sem - 1)]_vars

\* Every slot is held by a job in its capture, and the submission of
\* another key has returned a queued record whose worker waits at the
\* semaphore.
C37_Witness ==
    \E i, j \in Jobs :
        /\ sem = 0
        /\ w[i].pc = "capture"
        /\ w[j].pc = "acquire"
        /\ w[j].vm # w[i].vm
        /\ returned = [vm |-> w[j].vm, dump_id |-> j]
        /\ active[w[j].vm].state = "queued"

\* ------------------------------------------------------------ C35

\* C35: once stop_writing has been called, at whatever point after the
\* thread was started, and no enqueue follows, the writer thread eventually
\* leaves its loop and run() ends (which sets _stopped_event).
C35_StopEndsWriter == stopped ~> (wt.pc = "exited")

\* ------------------------------------------------------------ C38

\* C38: the records of all batches handed to _flush_batch, in the order of
\* the calls and within a batch in the order of buf, are a subsequence of
\* the records in the order in which they were put into the queue: every
\* flushed record was put, no record is flushed twice, and two flushed
\* records are flushed in the order in which they were put.
C38_FlushedInEnqueueOrder ==
    /\ \A m, n \in 1..Len(enqueued) : enqueued[m] = enqueued[n] => m = n
    /\ \A i \in 1..Len(flushed) :
          \E m \in 1..Len(enqueued) : enqueued[m] = flushed[i]
    /\ \A i, j \in 1..Len(flushed) :
          i < j => \E m, n \in 1..Len(enqueued) :
                      /\ m < n
                      /\ enqueued[m] = flushed[i]
                      /\ enqueued[n] = flushed[j]

\* Three records were put, the oldest was evicted from the full queue, and
\* the other two have been flushed in one batch, in the order of their puts.
C38_Witness ==
    /\ enqueued = <<1, 2, 3>>
    /\ fate[1] = "evicted"
    /\ flushed = <<2, 3>>
    /\ wt.buf = <<>>


\* ------------------------------------------------------------ dump poller
\* src/api/memory_dumps.py: POST /trigger adds _trigger_dump_background as
\* a background task.  The task is a coroutine without an await, so the
\* event loop runs one task to its end before it begins the next.

\* trigger_dump: a request naming at least one VM schedules the task.
TriggerDump(ids) ==
    /\ tpc \in {"idle", "done"}
    /\ ids # {}
    /\ tpc' = "post"
    /\ vm_ids' = ids
    /\ poll_elapsed' = 0
    /\ iterations' = 0
    /\ dump_statuses' = [vm \in PollVms |-> "absent"]
    /\ UNCHANGED last_trigger
    /\ UNCHANGED notPollerVars

\* Step 1: the POST to the dump service.  Any status but 200 records
\* 'failed'; a ConnectionError or any other exception (a timeout, a body
\* that is not JSON) is caught by the outer handlers, which record 'error'.
PostOutcomesOfTrigger == {"200", "500", "ConnectionError", "Exception"}

PostTrigger(outcome) ==
    /\ tpc = "post"
    /\ IF outcome = "200"
       THEN /\ last_trigger' = "in_progress"
            /\ tpc' = "poll"
       ELSE /\ last_trigger' = IF outcome = "500" THEN "failed" ELSE "error"
            /\ tpc' = "done"
    /\ UNCHANGED <<vm_ids, poll_elapsed, iterations, dump_statuses>>
    /\ UNCHANGED notPollerVars

\* all_completed after the for loop over vm_ids: a VM without a status, or
\* one that is running or queued, clears it.
AllCompletedIgnoresMissing(statuses, ids) ==
    \A vm \in ids : statuses[vm] \notin {"running", "queued"}

AllCompleted(statuses, ids) ==
    \A vm \in ids : statuses[vm] \notin {"absent", "running", "queued"}

\* One iteration of `while elapsed < max_wait_sec`: the GET, the check of
\* the requested VMs, and either the return or the sleep and the addition
\* to elapsed.  A status other than 200 and an exception both sleep and
\* add.
PollOutcomes == {"200", "500", "Exception"}

PollIteration(outcome, statuses) ==
    /\ tpc = "poll"
    /\ poll_elapsed < max_wait_sec
    /\ iterations' = iterations + 1
    /\ IF outcome = "200"
       THEN /\ dump_statuses' = statuses
            /\ IF AllCompleted(statuses, vm_ids)
               THEN /\ last_trigger' = "completed"
                    /\ tpc' = "done"
                    /\ UNCHANGED poll_elapsed
               ELSE /\ poll_elapsed' = poll_elapsed + poll_interval_sec
                    /\ UNCHANGED <<last_trigger, tpc>>
       ELSE /\ poll_elapsed' = poll_elapsed + poll_interval_sec
            /\ UNCHANGED <<dump_statuses, last_trigger, tpc>>
    /\ UNCHANGED vm_ids
    /\ UNCHANGED notPollerVars

\* The loop condition fails: 'timeout' is recorded.
PollTimeout ==
    /\ tpc = "poll"
    /\ poll_elapsed >= max_wait_sec
    /\ last_trigger' = "timeout"
    /\ tpc' = "done"
    /\ UNCHANGED <<vm_ids, poll_elapsed, iterations, dump_statuses>>
    /\ UNCHANGED notPollerVars

PollerInit ==
    /\ DumpInit
    /\ variant = "none"
    /\ WriterStart
    /\ SinkStart
    /\ FeatureStart
    /\ CollectorStart
    /\ PollerStart
    /\ EncoderStart

\* The steps of the task itself.
PollerStep ==
    \/ \E outcome \in PostOutcomesOfTrigger : PostTrigger(outcome)
    \/ \E outcome \in PollOutcomes, statuses \in [PollVms -> PollStates] :
           PollIteration(outcome, statuses)
    \/ PollTimeout

PollerNext ==
    \/ \E ids \in SUBSET PollVms : TriggerDump(ids)
    \/ PollerStep

PollerSpec == PollerInit /\ [][PollerNext]_vars

\* The event loop runs a scheduled task, every request of the task has a
\* timeout and every sleep returns.
PollerFairSpec == PollerSpec /\ WF_vars(PollerStep)

\* C40: the poller always terminates: its loop runs at most
\* max_wait_sec / poll_interval_sec iterations (rounded up when the
\* interval does not divide the wait), when it has ended the recorded
\* status is failed, completed, timeout or error, never in_progress, and
\* completed is recorded only when every requested VM has a status that
\* is neither queued nor running.
C40_PollerTerminates ==
    /\ (tpc \in {"post", "poll"}) ~> (tpc = "done")
    /\ [](iterations * poll_interval_sec < max_wait_sec + poll_interval_sec)
    /\ [](tpc = "done"
            => last_trigger \in {"failed", "completed", "timeout", "error"})
    /\ [](tpc = "done" /\ last_trigger = "completed"
            => \A vm \in vm_ids :
                   dump_statuses[vm] \notin {"absent", "queued", "running"})

\* Both VMs requested, the first poll found one still running, the second
\* found both done.
C40_Witness ==
    /\ tpc = "done"
    /\ last_trigger = "completed"
    /\ vm_ids = PollVms
    /\ iterations = 2
    /\ poll_elapsed = poll_interval_sec
    /\ dump_statuses = [vm \in PollVms |-> IF vm = "a" THEN "completed" ELSE "failed"]


\* -------------------------------------------------------------- collector
\* src/telemetry/collector.py: TelemetryCollector.  start() and stop() are
\* called from the request handlers, one call at a time; every thread that
\* start() created runs _collection_loop on the same object.

\* start().  On a running collector it returns False at once.  Otherwise
\* it connects, creates the InfluxConnector, sets _running, clears the
\* stop event, resets total_collections and starts a new thread; a failure
\* to connect is counted and answered with False.
Start(outcome) ==
    /\ caller = "idle"
    /\ start_result.calls < MaxCalls
    /\ IF c_running
       THEN /\ start_result' = [calls |-> start_result.calls + 1,
                                value |-> FALSE]
            /\ UNCHANGED <<c_running, stop_event, loops, collector_thread,
                           stats, writers>>
       ELSE IF outcome = "ok"
       THEN /\ collector_thread < MaxThreads
            /\ writers' = writers + 1
            /\ c_running' = TRUE
            /\ stop_event' = FALSE
            /\ stats' = [stats EXCEPT !.total_collections = 0]
            /\ collector_thread' = collector_thread + 1
            /\ loops' = [loops EXCEPT ![collector_thread + 1] =
                             [NoLoop EXCEPT !.pc = "test"]]
            /\ start_result' = [calls |-> start_result.calls + 1,
                                value |-> TRUE]
       ELSE /\ stats.total_errors < MaxCount
            /\ stats' = [stats EXCEPT !.total_errors = @ + 1]
            /\ start_result' = [calls |-> start_result.calls + 1,
                                value |-> FALSE]
            /\ UNCHANGED <<c_running, stop_event, loops, collector_thread,
                           writers>>
    /\ UNCHANGED caller
    /\ UNCHANGED notCollectorVars

\* stop() up to the join: nothing on a collector that is not running,
\* otherwise _running is cleared and the stop event set.
Stop ==
    /\ caller = "idle"
    /\ IF c_running
       THEN /\ c_running' = FALSE
            /\ stop_event' = TRUE
            /\ caller' = "join"
       ELSE UNCHANGED <<c_running, stop_event, caller>>
    /\ UNCHANGED <<loops, collector_thread, stats, writers, start_result>>
    /\ UNCHANGED notCollectorVars

\* join(timeout=5) returns, because the thread has ended or because the
\* five seconds have passed, and _cleanup() follows.
JoinReturn ==
    /\ caller = "join"
    /\ caller' = "idle"
    /\ UNCHANGED <<c_running, stop_event, loops, collector_thread, stats,
                   writers, start_result>>
    /\ UNCHANGED notCollectorVars

\* `while self._running and not self._stop_event.is_set()`.
CollectorLoopTest(t) ==
    /\ loops[t].pc = "test"
    /\ IF c_running /\ ~stop_event
       THEN /\ stats.total_collections < MaxCount
            /\ stats.total_errors < MaxCount
            /\ loops' = [loops EXCEPT ![t] =
                             [pc |-> "vms", i |-> 0, raised |-> FALSE,
                              slept |-> "none"]]
       ELSE loops' = [loops EXCEPT ![t].pc = "done"]
    /\ UNCHANGED <<c_running, stop_event, collector_thread, stats, caller,
                   writers, start_result>>
    /\ UNCHANGED notCollectorVars

\* The cycle returns from _collect_metrics: it is counted as a collection
\* and the loop sleeps what is left of the poll interval.
CycleCollected(t, error) ==
    /\ stats' = [stats EXCEPT !.total_collections = @ + 1]
    /\ loops' = [loops EXCEPT ![t] =
                     [pc |-> "test", i |-> 0,
                      raised |-> loops[t].raised \/ error,
                      slept |-> "remaining"]]

\* _collect_metrics: get_live_vms().  A KVMConnectorError is logged inside
\* _collect_metrics, which returns; any other exception (the connection
\* set to None by a disconnect() running at the same time) reaches the
\* handler of the loop, which counts it and sleeps one poll interval.
GetLiveVmsOutcomes == {"ok", "KVMConnectorError", "Exception"}

GetLiveVms(t, outcome) ==
    /\ loops[t].pc = "vms"
    /\ IF outcome = "ok"
       THEN /\ loops' = [loops EXCEPT ![t].pc = "vm", ![t].i = 1]
            /\ UNCHANGED stats
       ELSE IF outcome = "KVMConnectorError"
       THEN CycleCollected(t, TRUE)
       ELSE /\ stats' = [stats EXCEPT !.total_errors = @ + 1]
            /\ loops' = [loops EXCEPT ![t] =
                             [pc |-> "test", i |-> 0, raised |-> TRUE,
                              slept |-> "poll_interval"]]
    /\ UNCHANGED <<c_running, stop_event, collector_thread, caller, writers,
                   start_result>>
    /\ UNCHANGED notCollectorVars

\* `for vm in vms`: _collect_vm_metrics for one VM; an exception is logged
\* and the loop goes on with the next VM.  After the last VM the cycle
\* returns.
CollectVm(t, outcome) ==
    /\ loops[t].pc = "vm"
    /\ IF loops[t].i < LiveVms
       THEN /\ loops' = [loops EXCEPT ![t].i = @ + 1,
                                      ![t].raised = @ \/ (outcome # "ok")]
            /\ UNCHANGED stats
       ELSE CycleCollected(t, outcome # "ok")
    /\ UNCHANGED <<c_running, stop_event, collector_thread, caller, writers,
                   start_result>>
    /\ UNCHANGED notCollectorVars

CollectorInit ==
    /\ DumpInit
    /\ variant = "none"
    /\ WriterStart
    /\ SinkStart
    /\ FeatureStart
    /\ CollectorStart
    /\ PollerStart
    /\ EncoderStart

CollectorNext ==
    \/ \E outcome \in {"ok", "fail"} : Start(outcome)
    \/ Stop
    \/ JoinReturn
    \/ \E t \in Threads :
           \/ CollectorLoopTest(t)
           \/ \E outcome \in GetLiveVmsOutcomes : GetLiveVms(t, outcome)
           \/ \E outcome \in {"ok", "Exception"} : CollectVm(t, outcome)

CollectorSpec == CollectorInit /\ [][CollectorNext]_vars


\* C34: an error raised in a collection cycle (the metric source
\* unreachable, the collection of a VM failing) never ends the loop: the
\* cycle that raised it ends with the error counted in total_errors and a
\* sleep of one poll interval, a failure on a VM that is not the last is
\* followed by the collection of the next VM, and the loop ends only when
\* stop has been requested.
C34_ErrorCountedLoopGoesOn ==
    [][\A t \in Threads :
          /\ ( /\ loops[t].pc \in {"vms", "vm"}
               /\ loops'[t].pc = "test"
               /\ loops'[t].raised )
             => /\ stats'.total_errors = stats.total_errors + 1
                /\ loops'[t].slept = "poll_interval"
          /\ ( /\ loops[t].pc = "vm"
               /\ loops[t].i < LiveVms
               /\ loops'[t] # loops[t] )
             => /\ loops'[t].pc = "vm"
                /\ loops'[t].i = loops[t].i + 1
          /\ ( /\ loops[t].pc \in {"vms", "vm"}
               /\ loops'[t] # loops[t] )
             => loops'[t].pc \in {"vm", "test"}
          /\ (loops[t].pc # "done" /\ loops'[t].pc = "done")
             => (~c_running \/ stop_event)
      ]_vars

\* C39: at most one thread is inside a collection cycle at any time, and
\* a call of start() on a running collector returns False and creates
\* neither a writer nor a thread.
C39_OneLoopThread ==
    /\ [](Cardinality({t \in Threads : loops[t].pc \in {"vms", "vm"}}) <= 1)
    /\ [][(start_result'.calls # start_result.calls /\ c_running)
            => /\ start_result'.value = FALSE
               /\ writers' = writers
               /\ loops' = loops
               /\ collector_thread' = collector_thread]_vars

====
